---- MODULE Spec2Model ----
(***************************************************************************)
(* Model of sqlstream.py: SQLVideoEngine (ingest, play) and main.          *)
(*                                                                         *)
(* A database is modelled by its two tables.  frame_library is a sequence  *)
(* of rows <<frame_id, line_no, content>> in rowid (insertion) order; it   *)
(* has no key, so duplicates are possible.  display is a set of rows       *)
(* [line_no, content].  Text contents are strings; the SQL NULL is the     *)
(* marker NULL.  `file` is the committed database at the path given by     *)
(* --out or --play-db; tables/frame_library/display are what the engine's  *)
(* connection sees (its uncommitted writes included).                      *)
(***************************************************************************)
EXTENDS Integers, Sequences, FiniteSets, TLC

VARIABLES
    mode,           \* "source" (--source) or "play_db" (--play-db)
    persist,        \* --out was given: the engine's database is the file
    file,           \* committed database at the path
    file0,          \* history: the file as it was when the process started
    plan,           \* row the scalar subquery returns among several matches
    tables,         \* the connection's database has the two tables
    frame_library,  \* table frame_library, in rowid order
    display,        \* table display
    display_w,      \* self.display_w, once set
    display_h,      \* self.display_h, once set
    use_color,      \* --color
    fps_target,     \* --fps
    max_frames,     \* local max_frames of ingest
    frame_id,       \* local frame_id of ingest
    batch,          \* local batch of ingest
    encoded,        \* history: the lines frame_to_ansi returned, per frame
    total,          \* local total of play (NoneVal when MAX() is NULL)
    f_id,           \* loop variable of play
    frame_data,     \* local frame_data of play
    rendered,       \* history: what play wrote to the terminal, per tick
    reset_emitted,  \* the caller printed the formatting reset code
    connected,      \* history: sqlite3.connect was called
    native_fps,     \* cap.get(CAP_PROP_FPS), in half frames per second (0: none)
    duration,       \* --duration, as ingest received it
    eof,            \* history: cap.read() reported the end of the stream
    direct,         \* history: how the process that wrote the file played it
    ramp,           \* self.chars, one character per element
    lum,            \* a gray value handed to the glyph mapping
    glyph,          \* the character the glyph mapping returned for lum
    pc,             \* position in the program
    exit            \* "running", or how the process ended

vars == <<mode, persist, file, file0, plan, tables, frame_library, display,
          display_w, display_h, use_color, fps_target, max_frames, frame_id, batch,
          encoded, total, f_id, frame_data, rendered, reset_emitted, connected,
          native_fps, duration, eof, direct, ramp, lum, glyph, pc, exit>>

(* ------------------------------ bounds --------------------------------- *)

\* Largest display height (terminal rows - 3) and width (terminal columns).
MaxH == 2
MaxW == 1
\* Most frames the decoder yields before end of stream.
MaxFrames == 2
\* Largest frame rate and --duration tried.
MaxFps == 1
MaxDuration == 2

(* ------------------------------ values --------------------------------- *)

NULL == "NULL"
NoneVal == -1

\* The images a decoder can yield.
SourceFrames == {"dusk", "dawn"}

\* cv2.resize(frame, (display_w, display_h)): the w x h matrix of BGR pixels.
\* Rows and columns of an image differ, and the two images differ everywhere.
Pixel(frame, i, j) ==
    LET v == (96 * (i - 1) + 40 * (j - 1)) % 256
    IN  IF frame = "dusk" THEN <<0, v, v>> ELSE <<255, 255 - v, 255>>

Resized(frame, w, h) == [i \in 1..h |-> [j \in 1..w |-> Pixel(frame, i, j)]]

RECURSIVE Join(_)
Join(strs) == IF strs = <<>> THEN "" ELSE Head(strs) \o Join(Tail(strs))

\* The default density ramp, one character per element.
chars == <<"@", "%", "#", "*", "+", "=", "-", ":", ".", " ">>

\* cv2.cvtColor(..., COLOR_BGR2GRAY) of one pixel (8-bit fixed point).
Gray(px) == (px[3] * 4899 + px[2] * 9617 + px[1] * 1868 + 8192) \div 16384

ColorCell(px) ==
    "ESC[48;2;" \o ToString(px[3]) \o ";" \o ToString(px[2]) \o ";"
                \o ToString(px[1]) \o "m "

\* self.chars[p // 32]
Glyph(r, p) == r[(p \div 32) + 1]

AnsiLine(row, color) ==
    IF color
    THEN Join([j \in 1..Len(row) |-> ColorCell(row[j])]) \o "ESC[0m"
    ELSE Join([j \in 1..Len(row) |-> Glyph(chars, Gray(row[j]))])

\* As frame_to_ansi, with the target size given to resize as (height, width).
frame_to_ansi_swapped(frame, w, h, color) ==
    LET resized == Resized(frame, h, w)
    IN  [i \in 1..Len(resized) |-> AnsiLine(resized[i], color)]

frame_to_ansi(frame, w, h, color) ==
    LET resized == Resized(frame, w, h)
    IN  [i \in 1..Len(resized) |-> AnsiLine(resized[i], color)]

\* As BatchRows, with line numbers counted from 1.
BatchRowsFromOne(fid, lines) == [i \in 1..Len(lines) |-> <<fid, i, lines[i]>>]

\* for i, line in enumerate(lines): batch.append((frame_id, i, line))
BatchRows(fid, lines) == [i \in 1..Len(lines) |-> <<fid, i - 1, lines[i]>>]

\* As InitialDisplayRows, with one row too many.
InitialDisplayRowsInclusive(h) == {[line_no |-> i, content |-> ""] : i \in 0..h}

\* [(i,) for i in range(self.display_h)] inserted with content ''
InitialDisplayRows(h) == {[line_no |-> i, content |-> ""] : i \in 0..(h - 1)}

(* ------------------------------ store ---------------------------------- *)

NoFile == [exists |-> FALSE, tables |-> FALSE, frame_library |-> <<>>, display |-> {}]

Db(t, lib, disp) ==
    [exists |-> TRUE, tables |-> t, frame_library |-> lib, display |-> disp]

\* As MaxFrameId, with COUNT(DISTINCT frame_id) in place of MAX(frame_id).
MaxFrameIdCount(lib) ==
    IF lib = <<>> THEN NoneVal
    ELSE Cardinality({lib[n][1] : n \in 1..Len(lib)})

\* SELECT MAX(frame_id) FROM frame_library
MaxFrameId(lib) ==
    IF lib = <<>> THEN NoneVal
    ELSE CHOOSE m \in {lib[n][1] : n \in 1..Len(lib)} :
            \A n \in 1..Len(lib) : lib[n][1] <= m

\* (SELECT content FROM frame_library WHERE frame_id = ? AND line_no = ...):
\* the first row of the result, NULL when there is none.
Lookup(lib, f, l, p) ==
    LET hits == {n \in 1..Len(lib) : lib[n][1] = f /\ lib[n][2] = l}
    IN  IF hits = {} THEN NULL
        ELSE IF p = "asc"
             THEN lib[CHOOSE n \in hits : \A m \in hits : n <= m][3]
             ELSE lib[CHOOSE n \in hits : \A m \in hits : n >= m][3]

\* As SyncFrame, appending the archive's content to the row's own.
SyncFrameAppending(disp, lib, f, p) ==
    {[line_no |-> r.line_no, content |-> r.content \o Lookup(lib, f, r.line_no, p)] : r \in disp}

\* As SyncFrame, keeping a row's content when the archive has none for it.
SyncFrameRetaining(disp, lib, f, p) ==
    {[line_no |-> r.line_no,
      content |-> IF Lookup(lib, f, r.line_no, p) = NULL THEN r.content
                  ELSE Lookup(lib, f, r.line_no, p)] : r \in disp}

\* UPDATE display SET content = (SELECT ... WHERE frame_id = f AND line_no = display.line_no)
SyncFrame(disp, lib, f, p) ==
    {[line_no |-> r.line_no, content |-> Lookup(lib, f, r.line_no, p)] : r \in disp}

\* SELECT content FROM display ORDER BY line_no
RECURSIVE ReadCurrent(_)
ReadCurrent(disp) ==
    IF disp = {} THEN <<>>
    ELSE LET r == CHOOSE x \in disp : \A y \in disp : x.line_no <= y.line_no
         IN  <<r.content>> \o ReadCurrent(disp \ {r})

\* As NextFrame, dropping a frame after a tick that ran late.
NextFrameCatchUp(f, late) == IF late THEN f + 2 ELSE f + 1

\* range(total + 1) hands out the loop variable's next value
NextFrame(f, late) == f + 1

(* ------------------- persisted stores given on the command line -------- *)

\* The decoder's stream of an earlier session: n frames, dusk first.
EarlierStream(n) == [k \in 1..n |-> IF k % 2 = 1 THEN "dusk" ELSE "dawn"]

RECURSIVE EarlierBatch(_, _, _)
EarlierBatch(stream, w, h) ==
    IF stream = <<>> THEN <<>>
    ELSE EarlierBatch(SubSeq(stream, 1, Len(stream) - 1), w, h)
         \o BatchRows(Len(stream) - 1, frame_to_ansi(stream[Len(stream)], w, h, FALSE))

\* The file an earlier run with --out left: ingest's commit of n frames of height h.
EarlierSession(h, n) == Db(TRUE, EarlierBatch(EarlierStream(n), 1, h), InitialDisplayRows(h))

\* Files that no run of ingest writes, with the same schema.
MissingLine(db) ==
    [db EXCEPT !.frame_library = SubSeq(@, 1, Len(@) - 1)]
DuplicateLine(db) ==
    [db EXCEPT !.frame_library = Append(@, <<@[1][1], @[1][2], "dup">>)]
ExtraLine(db) ==
    [db EXCEPT !.frame_library = Append(@, <<0, Cardinality(db.display), "extra">>)]
FrameGap(db) ==
    [db EXCEPT !.frame_library = [n \in 1..Len(@) |-> <<2 * @[n][1], @[n][2], @[n][3]>>]]
StaleMirror(db) ==
    [db EXCEPT !.display = {[line_no |-> r.line_no, content |-> "stale"] : r \in @}]

\* What --play-db may name.
PlayDbFiles ==
    {NoFile, Db(FALSE, <<>>, {})}
    \cup {EarlierSession(h, n) : h \in 1..MaxH, n \in 0..MaxFrames}
    \cup UNION {{MissingLine(EarlierSession(h, n)), DuplicateLine(EarlierSession(h, n)),
                 ExtraLine(EarlierSession(h, n)), FrameGap(EarlierSession(h, n)),
                 StaleMirror(EarlierSession(h, n))} : h \in 1..MaxH, n \in 1..MaxFrames}

\* What --out may name: nothing yet, or the file of an earlier session.
OutFiles == {NoFile, EarlierSession(1, 1)}

(* ------------------------------ main ----------------------------------- *)

\* No process has run before this one.
NotPlayed == [pc |-> "", exit |-> "running", rendered |-> <<>>]

Init ==
    /\ mode \in {"source", "play_db"}
    /\ persist \in (IF mode = "source" THEN BOOLEAN ELSE {FALSE})
    /\ file \in (IF mode = "play_db" THEN PlayDbFiles
                 ELSE IF persist THEN OutFiles ELSE {NoFile})
    /\ file0 = file
    /\ plan \in {"asc", "desc"}
    \* SQLVideoEngine(db_path=...): sqlite3.connect sees the file named by --out,
    \* or a fresh in-memory database
    /\ tables = (IF mode = "source" THEN file.tables ELSE FALSE)
    /\ frame_library = (IF mode = "source" THEN file.frame_library ELSE <<>>)
    /\ display = (IF mode = "source" THEN file.display ELSE {})
    /\ display_w = NoneVal
    /\ display_h = NoneVal
    /\ use_color \in (IF mode = "source" THEN BOOLEAN ELSE {FALSE})
    /\ fps_target \in 0..MaxFps
    /\ max_frames = 0
    /\ frame_id = 0
    /\ batch = <<>>
    /\ encoded = <<>>
    /\ total = NoneVal
    /\ f_id = 0
    /\ frame_data = <<>>
    /\ rendered = <<>>
    /\ reset_emitted = FALSE
    /\ connected = (mode = "source")
    /\ native_fps = 0
    /\ duration = 0
    /\ eof = FALSE
    /\ direct = NotPlayed
    \* main gives the engine no chars: the default ramp
    /\ ramp = chars
    /\ lum = 0
    /\ glyph = ""
    /\ pc = (IF mode = "source" THEN "prepare" ELSE "check_path")
    /\ exit = "running"

\* What a commit leaves in the file named by --out.
Committed(t, lib, disp) == IF persist THEN Db(t, lib, disp) ELSE file

IngestVars == <<display_w, display_h, max_frames, frame_id, batch, encoded>>
PlayVars == <<total, f_id, frame_data, rendered>>
StoreVars == <<file, tables, frame_library, display>>
\* What no step of a running process changes: the arguments and the past.
ArgVars == <<mode, persist, file0, plan, use_color, fps_target, direct, ramp, lum, glyph>>
CapVars == <<native_fps, duration, eof>>

\* The process's exit status: sys.exit(1), an uncaught exception, or the end of main.
ExitStatus(e) == IF e \in {"ok", "interrupted"} THEN 0 ELSE 1

\* As CheckPath, without the test of os.path.exists.
CheckPathUnchecked ==
    /\ exit = "running" /\ pc = "check_path"
    /\ pc' = "load" /\ exit' = exit
    /\ UNCHANGED <<ArgVars, StoreVars, IngestVars, PlayVars, reset_emitted, connected,
                   CapVars>>

\* --play-db: os.path.exists, else the error message and sys.exit(1)
CheckPath ==
    /\ exit = "running" /\ pc = "check_path"
    /\ IF file.exists
       THEN pc' = "load" /\ exit' = exit
       ELSE pc' = pc /\ exit' = "not_found"
    /\ UNCHANGED <<ArgVars, StoreVars, IngestVars, PlayVars, reset_emitted, connected,
                   CapVars>>

\* As LoadStore, with the backup made from the engine's empty database to the file.
LoadStoreReversed ==
    /\ exit = "running" /\ pc = "load"
    /\ file' = Db(FALSE, <<>>, {})
    /\ connected' = TRUE
    /\ pc' = "max"
    /\ UNCHANGED <<ArgVars, tables, frame_library, display, IngestVars, PlayVars,
                   reset_emitted, CapVars, exit>>

\* --play-db: the in-memory engine, disk_conn.backup(engine.conn), disk_conn.close()
LoadStore ==
    /\ exit = "running" /\ pc = "load"
    /\ tables' = file.tables
    /\ frame_library' = file.frame_library
    /\ display' = file.display
    /\ connected' = TRUE
    /\ pc' = "max"
    /\ UNCHANGED <<ArgVars, file, IngestVars, PlayVars, reset_emitted, CapVars, exit>>

(* ------------------------------ ingest --------------------------------- *)

\* _prepare_tables: both tables dropped and created again, committed.
PrepareTables ==
    /\ exit = "running" /\ pc = "prepare"
    /\ tables' = TRUE
    /\ frame_library' = <<>>
    /\ display' = {}
    /\ file' = Committed(TRUE, <<>>, {})
    /\ pc' = "open"
    /\ UNCHANGED <<ArgVars, IngestVars, PlayVars, reset_emitted, connected, CapVars, exit>>

\* The sources --source may name: a file or a URL; the resolver may raise; the
\* decoder may fail to open.
Sources ==
    {[is_url |-> u, resolves |-> r, opens |-> o] :
        u \in BOOLEAN, r \in BOOLEAN, o \in BOOLEAN}

\* As MaxFramesOf, rounding the product to the nearest integer (half up).
MaxFramesOfRounded(native, target, secs) ==
    IF native # 0 THEN (native * secs + 1) \div 2 ELSE target * secs

\* int(video_fps * duration) with video_fps = cap.get(CAP_PROP_FPS) or fps_target
\* (the native rate is counted in half frames per second, so the product can
\* have a fraction for int() to drop)
MaxFramesOf(native, target, secs) ==
    IF native # 0 THEN (native * secs) \div 2 ELSE target * secs

\* ingest from the URL test to max_frames: the source is resolved and opened,
\* the display size defaults to the terminal's, the frame budget is computed.
OpenSource ==
    /\ exit = "running" /\ pc = "open"
    /\ \E src \in Sources :
          IF src.is_url /\ ~src.resolves
          THEN \* get_stream_url raises
               /\ exit' = "DownloadError"
               /\ UNCHANGED <<pc, IngestVars, native_fps, duration>>
          ELSE IF ~src.opens
          THEN \* if not cap.isOpened(): return False; main then ends
               /\ exit' = "ok"
               /\ UNCHANGED <<pc, IngestVars, native_fps, duration>>
          ELSE \E w \in 1..MaxW, h \in 0..MaxH, native \in 0..(2 * MaxFps),
                  secs \in 0..MaxDuration :
               /\ display_w' = w
               /\ display_h' = h
               /\ native_fps' = native
               /\ duration' = secs
               /\ max_frames' = MaxFramesOf(native, fps_target, secs)
               /\ pc' = "read"
               /\ UNCHANGED <<frame_id, batch, encoded, exit>>
    /\ UNCHANGED <<ArgVars, StoreVars, PlayVars, reset_emitted, connected, eof>>

\* One pass of the while loop: its test, cap.read(), frame_to_ansi, the appends.
ReadFrame ==
    /\ exit = "running" /\ pc = "read"
    /\ IF frame_id >= max_frames
       THEN /\ pc' = "commit"
            /\ UNCHANGED <<frame_id, batch, encoded, eof, exit>>
       ELSE \/ \* ret is False: end of stream
               /\ pc' = "commit"
               /\ eof' = TRUE
               /\ UNCHANGED <<frame_id, batch, encoded, exit>>
            \/ \* a frame is read
               /\ frame_id < MaxFrames
               /\ \E frame \in SourceFrames :
                     IF display_h <= 0
                     THEN \* cv2.resize rejects an empty target size
                          /\ exit' = "cv2.error"
                          /\ UNCHANGED <<pc, frame_id, batch, encoded, eof>>
                     ELSE LET lines == frame_to_ansi(frame, display_w, display_h, use_color)
                          IN  /\ batch' = batch \o BatchRows(frame_id, lines)
                              /\ encoded' = Append(encoded, lines)
                              /\ frame_id' = frame_id + 1
                              /\ UNCHANGED <<pc, eof, exit>>
    /\ UNCHANGED <<ArgVars, StoreVars, display_w, display_h, max_frames, PlayVars,
                   reset_emitted, connected, native_fps, duration>>

\* As IngestBatch, on a connection that commits each statement by itself.
IngestBatchAutocommit ==
    /\ exit = "running" /\ pc = "commit"
    /\ frame_library' = frame_library \o batch
    /\ display' = display \cup InitialDisplayRows(display_h)
    /\ file' = Committed(TRUE, frame_library', display)
    /\ pc' = "committing"
    /\ UNCHANGED <<ArgVars, tables, IngestVars, PlayVars, reset_emitted, connected,
                   CapVars, exit>>

\* The two executemany calls: the rows are in the connection's open
\* transaction, not yet in the file.
IngestBatch ==
    /\ exit = "running" /\ pc = "commit"
    /\ frame_library' = frame_library \o batch
    /\ display' = display \cup InitialDisplayRows(display_h)
    /\ pc' = "committing"
    /\ UNCHANGED <<ArgVars, file, tables, IngestVars, PlayVars, reset_emitted, connected,
                   CapVars, exit>>

\* self.conn.commit(), cap.release(); ingest returns True, and what it kept of
\* the decoder (the rate, the duration, the frame budget) goes with its frame.
CommitBatch ==
    /\ exit = "running" /\ pc = "committing"
    /\ file' = Committed(TRUE, frame_library, display)
    /\ max_frames' = 0
    /\ native_fps' = 0
    /\ duration' = 0
    /\ eof' = FALSE
    /\ pc' = "max"
    /\ UNCHANGED <<ArgVars, tables, frame_library, display, display_w, display_h, frame_id,
                   batch, encoded, PlayVars, reset_emitted, connected, exit>>

(* ------------------------------ play ----------------------------------- *)

\* SELECT MAX(frame_id), fetchone()[0], and range(total + 1) of the for loop.
PlayStart ==
    /\ exit = "running" /\ pc = "max"
    /\ IF ~tables
       THEN \* no such table: frame_library
            /\ exit' = "OperationalError"
            /\ UNCHANGED <<pc, total, f_id>>
       ELSE /\ total' = MaxFrameId(frame_library)
            /\ IF total' = NoneVal
               THEN \* None + 1
                    /\ exit' = "TypeError"
                    /\ UNCHANGED <<pc, f_id>>
               ELSE /\ f_id' = 0
                    /\ pc' = "sync"
                    /\ exit' = exit
    /\ UNCHANGED <<ArgVars, StoreVars, IngestVars, frame_data, rendered, reset_emitted,
                   connected, CapVars>>

\* As SyncDisplay, deleting the frame from the archive once it is shown.
SyncDisplayConsuming ==
    /\ exit = "running" /\ pc = "sync"
    /\ display' = SyncFrame(display, frame_library, f_id, plan)
    /\ frame_library' = SelectSeq(frame_library, LAMBDA row : row[1] >= f_id)
    /\ pc' = "read_current"
    /\ UNCHANGED <<ArgVars, file, tables, IngestVars, PlayVars, reset_emitted, connected,
                   CapVars, exit>>

\* The correlated UPDATE of display for frame f_id (not committed).
SyncDisplay ==
    /\ exit = "running" /\ pc = "sync"
    /\ display' = SyncFrame(display, frame_library, f_id, plan)
    /\ pc' = "read_current"
    /\ UNCHANGED <<ArgVars, file, tables, frame_library, IngestVars, PlayVars,
                   reset_emitted, connected, CapVars, exit>>

\* SELECT content FROM display ORDER BY line_no; fetchall()
FetchDisplay ==
    /\ exit = "running" /\ pc = "read_current"
    /\ frame_data' = ReadCurrent(display)
    /\ pc' = "render"
    /\ UNCHANGED <<ArgVars, StoreVars, IngestVars, total, f_id, rendered,
                   reset_emitted, connected, CapVars, exit>>

\* "\n".join of the contents, the status line, the write to the terminal.
Render ==
    /\ exit = "running" /\ pc = "render"
    /\ IF \E i \in 1..Len(frame_data) : frame_data[i] = NULL
       THEN \* join: expected str instance, NoneType found
            /\ exit' = "TypeError"
            /\ UNCHANGED <<pc, rendered>>
       ELSE /\ rendered' = Append(rendered, [f_id |-> f_id, lines |-> frame_data])
            /\ pc' = "pace"
            /\ exit' = exit
    /\ UNCHANGED <<ArgVars, StoreVars, IngestVars, total, f_id, frame_data, reset_emitted,
                   connected, CapVars>>

\* The frame budget 1/fps_target, the sleep for what is left of it (none when
\* the tick ran late),
\* then the loop's next value, or its end and the end of main.
Pace ==
    /\ exit = "running" /\ pc = "pace"
    /\ IF fps_target = 0
       THEN \* 1/fps_target
            /\ exit' = "ZeroDivisionError"
            /\ UNCHANGED <<pc, f_id>>
       ELSE \E late \in BOOLEAN :
               IF NextFrame(f_id, late) <= total
               THEN /\ f_id' = NextFrame(f_id, late)
                    /\ pc' = "sync"
                    /\ exit' = exit
               ELSE /\ f_id' = f_id
                    /\ pc' = "end"
                    /\ exit' = "ok"
    /\ UNCHANGED <<ArgVars, StoreVars, IngestVars, total, frame_data, rendered,
                   reset_emitted, connected, CapVars>>

(* ------------------------------ interrupt ------------------------------ *)

\* KeyboardInterrupt is raised wherever the program is.  With --source it is
\* caught by main, which prints the reset code; with --play-db nothing catches it.
Interrupt ==
    /\ exit = "running"
    /\ IF mode = "source"
       THEN exit' = "interrupted" /\ reset_emitted' = TRUE
       ELSE exit' = "KeyboardInterrupt" /\ reset_emitted' = reset_emitted
    /\ UNCHANGED <<ArgVars, StoreVars, IngestVars, PlayVars, connected, CapVars, pc>>

Next ==
    \/ CheckPath
    \/ LoadStore
    \/ PrepareTables
    \/ OpenSource
    \/ ReadFrame
    \/ IngestBatch
    \/ CommitBatch
    \/ PlayStart
    \/ SyncDisplay
    \/ FetchDisplay
    \/ Render
    \/ Pace
    \/ Interrupt

(* ------------------------------ replay --------------------------------- *)

\* After a process run with --source and --out has ended, a second process is
\* started with --play-db on the file it left and the same --fps.  What the
\* first one rendered is kept in `direct`.  The file is given as it was
\* committed, or with other contents in its mirror rows.
Replay ==
    /\ exit # "running" /\ mode = "source" /\ persist /\ direct = NotPlayed
    /\ direct' = [pc |-> pc, exit |-> exit, rendered |-> rendered]
    /\ file' \in {file, StaleMirror(file)}
    /\ file0' = file'
    /\ mode' = "play_db"
    /\ persist' = FALSE
    /\ use_color' = FALSE
    /\ tables' = FALSE
    /\ frame_library' = <<>>
    /\ display' = {}
    /\ display_w' = NoneVal
    /\ display_h' = NoneVal
    /\ max_frames' = 0
    /\ frame_id' = 0
    /\ batch' = <<>>
    /\ total' = NoneVal
    /\ f_id' = 0
    /\ frame_data' = <<>>
    /\ rendered' = <<>>
    /\ reset_emitted' = FALSE
    /\ connected' = FALSE
    /\ pc' = "check_path"
    /\ exit' = "running"
    /\ UNCHANGED <<plan, fps_target, encoded, CapVars, ramp, lum, glyph>>

\* The steps of the program itself: it is single-threaded and sequential, so as
\* long as it has a next step it takes it; only the interrupt comes from outside.
ProgramStep ==
    \/ CheckPath
    \/ LoadStore
    \/ PrepareTables
    \/ OpenSource
    \/ ReadFrame
    \/ IngestBatch
    \/ CommitBatch
    \/ PlayStart
    \/ SyncDisplay
    \/ FetchDisplay
    \/ Render
    \/ Pace

Spec == Init /\ [][Next]_vars

FairSpec == Spec /\ WF_vars(ProgramStep)

ReplaySpec == Init /\ [][Next \/ Replay]_vars

(* ------------------- the engine as a library: the glyph mapping --------- *)

\* Ramps a caller may pass as chars: the default, one of eight characters,
\* one of two.
Ramps == {chars, <<" ", ".", ":", "-", "=", "+", "#", "@">>, <<"@", " ">>}

GlyphInit ==
    /\ mode = "library"
    /\ persist = FALSE
    /\ file = NoFile
    /\ file0 = NoFile
    /\ plan = "asc"
    /\ tables = FALSE
    /\ frame_library = <<>>
    /\ display = {}
    /\ display_w = NoneVal
    /\ display_h = NoneVal
    /\ use_color = FALSE
    /\ fps_target = 0
    /\ max_frames = 0
    /\ frame_id = 0
    /\ batch = <<>>
    /\ encoded = <<>>
    /\ total = NoneVal
    /\ f_id = 0
    /\ frame_data = <<>>
    /\ rendered = <<>>
    /\ reset_emitted = FALSE
    /\ connected = FALSE
    /\ native_fps = 0
    /\ duration = 0
    /\ eof = FALSE
    /\ direct = NotPlayed
    /\ ramp \in Ramps
    /\ lum \in 0..255
    /\ glyph = ""
    /\ pc = "construct"
    /\ exit = "running"

GlyphFrame == <<mode, persist, file0, plan, use_color, fps_target, direct, StoreVars,
                IngestVars, PlayVars, CapVars, reset_emitted, ramp, lum>>

\* SQLVideoEngine(chars=ramp): the fields are set and the connection opened;
\* nothing looks at the ramp.
Construct ==
    /\ exit = "running" /\ pc = "construct"
    /\ connected' = TRUE
    /\ pc' = "encode"
    /\ UNCHANGED <<GlyphFrame, glyph, exit>>

\* frame_to_ansi in glyph mode on a pixel of gray value lum: self.chars[p // 32]
EncodeGlyph ==
    /\ exit = "running" /\ pc = "encode"
    /\ IF (lum \div 32) + 1 > Len(ramp)
       THEN \* string index out of range
            /\ exit' = "IndexError"
            /\ UNCHANGED <<pc, glyph>>
       ELSE /\ glyph' = Glyph(ramp, lum)
            /\ pc' = "encoded"
            /\ exit' = exit
    /\ UNCHANGED <<GlyphFrame, connected>>

GlyphNext == Construct \/ EncodeGlyph

GlyphSpec == GlyphInit /\ [][GlyphNext]_vars

(* ------------------------------ claims --------------------------------- *)

\* Positions after ingest's commit, and positions inside play's loop.
AfterCommit == {"max", "sync", "read_current", "render", "pace", "end"}
InLoop == {"sync", "read_current", "render", "pace"}

FrameIds(lib) == {lib[n][1] : n \in 1..Len(lib)}
RowsOf(lib, f) == {n \in 1..Len(lib) : lib[n][1] = f}
LineNos(disp) == {r.line_no : r \in disp}

\* Every frame of lib has each line of the mirror exactly once and no other.
ArchiveComplete(lib, disp) ==
    \A f \in FrameIds(lib) :
        /\ {lib[n][2] : n \in RowsOf(lib, f)} = LineNos(disp)
        /\ Cardinality(RowsOf(lib, f)) = Cardinality(disp)

Stopped == exit \in {"interrupted", "KeyboardInterrupt"}

\* C1: after ingestion, for every archived frame k, syncFrame(k) then
\* readCurrent() yields exactly the display_h lines the encoder returned for
\* frame k, in line_no order, whatever the mirror holds at that moment.
C1_SyncThenReadReturnsEncodedFrame ==
    (mode = "source" /\ pc \in AfterCommit) =>
        /\ FrameIds(frame_library) = 0..(Len(encoded) - 1)
        /\ \A k \in FrameIds(frame_library) :
              LET read == ReadCurrent(SyncFrame(display, frame_library, k, plan))
              IN  /\ Len(read) = display_h
                  /\ read = encoded[k + 1]

C1_Witness ==
    /\ mode = "source" /\ pc = "render" /\ f_id = 1 /\ display_h = MaxH
    /\ frame_data = encoded[2]
    /\ encoded[2] # encoded[1]
    /\ frame_data[1] # frame_data[2]

\* C2: after a completed ingestion every frame_id of the archive has the
\* line_no values 0..display_h-1, each exactly once, in the connection's table
\* and in the committed file alike.
C2_ArchiveLinesComplete ==
    (mode = "source" /\ pc \in AfterCommit) =>
        /\ \A f \in FrameIds(frame_library) :
              /\ {frame_library[n][2] : n \in RowsOf(frame_library, f)} = 0..(display_h - 1)
              /\ Cardinality(RowsOf(frame_library, f)) = display_h
        /\ persist => file.frame_library = frame_library

C2_Witness ==
    /\ mode = "source" /\ pc = "max" /\ persist
    /\ display_h = MaxH
    /\ FrameIds(file.frame_library) = {0, 1}

\* C3: play renders frame ids 0, 1, ... in order, one per tick, never one
\* twice and never one skipped, whether or not a tick ran late; it ends
\* normally only when every id up to MAX(frame_id) was rendered, and after an
\* ingestion with a target fps > 0 nothing but an interrupt ends it earlier.
C3_RendersEachFrameOnceInOrder ==
    (pc \in InLoop \cup {"end"}) =>
        /\ \A i \in 1..Len(rendered) : rendered[i].f_id = i - 1
        /\ Len(rendered) <= total + 1
        /\ pc \in {"sync", "read_current", "render"} => f_id = Len(rendered)
        /\ pc = "pace" => f_id = Len(rendered) - 1
        /\ pc = "end" => Len(rendered) = total + 1
        /\ mode = "source" /\ fps_target > 0 => exit \in {"running", "ok", "interrupted"}

C3_Witness ==
    /\ pc = "end" /\ exit = "ok" /\ total = MaxFrames - 1
    /\ Len(rendered) = MaxFrames

\* C4 as claimed: from the moment the tables are created, in every state of an
\* ingesting session, the mirror has exactly display_h rows, line_no 0..display_h-1.
C4_MirrorHasHRowsSinceReset ==
    (mode = "source" /\ pc \in {"read", "commit"} \cup AfterCommit) =>
        /\ LineNos(display) = 0..(display_h - 1)
        /\ Cardinality(display) = display_h

\* C4 as amended: the mirror is empty from _prepare_tables until ingest inserts
\* its rows right before the final commit (so also after an ingest that fails
\* or is interrupted earlier); from then on it has exactly display_h rows, line_no 0..display_h-1, each once;
\* ingest writes only the empty contents and a tick changes contents only.
C4_MirrorHasHRowsAfterCommit ==
    mode = "source" =>
        /\ pc \in {"open", "read", "commit"} => display = {}
        /\ pc \in AfterCommit \cup {"committing"} =>
              /\ LineNos(display) = 0..(display_h - 1)
              /\ Cardinality(display) = display_h
        /\ pc \in {"committing", "max"} => \A r \in display : r.content = ""

C4_Witness ==
    /\ mode = "source" /\ pc = "pace" /\ f_id = 1 /\ display_h = MaxH
    /\ \A r \in display : r.content \notin {"", NULL}

\* C5: no step of play changes the archive, neither the connection's table
\* nor the committed file, also in a playback that is interrupted part-way.
C5_PlaybackLeavesArchiveUnchanged ==
    [][(pc \in AfterCommit) =>
          (frame_library' = frame_library /\ file'.frame_library = file.frame_library)]_vars

C5_Witness ==
    /\ mode = "source" /\ exit = "interrupted" /\ pc = "read_current" /\ f_id = 1
    /\ frame_library = batch
    /\ Len(rendered) = 1

\* C6: syncFrame(k) a second time changes nothing: for every archived frame k
\* and whatever the mirror holds, the mirror after two calls equals the mirror
\* after one, and readCurrent() returns the same lines.
C6_SyncFrameIdempotent ==
    tables =>
        \A k \in FrameIds(frame_library) :
            LET once == SyncFrame(display, frame_library, k, plan)
                twice == SyncFrame(once, frame_library, k, plan)
            IN  /\ twice = once
                /\ ReadCurrent(twice) = ReadCurrent(once)

C6_Witness ==
    /\ pc = "read_current" /\ f_id = 1
    /\ display = SyncFrame(display, frame_library, f_id, plan)
    /\ \A r \in display : r.content \notin {"", NULL}

\* C7 as claimed: play started on an empty archive (an ingestion that
\* committed zero frames) performs no tick and ends normally.
C7_EmptyArchivePlaybackEndsNormally ==
    (mode = "source" /\ pc = "max" /\ frame_library = <<>> /\ exit # "running" /\ ~Stopped) =>
        exit = "ok" /\ rendered = <<>>

\* C8 as claimed: when the decoder fails to open the source, ingest returns
\* with the store at the path as it was before the call, and play is not started.
C8_FailedOpenLeavesStoreUntouched ==
    (mode = "source" /\ pc = "open" /\ exit = "ok") =>
        file = file0 /\ rendered = <<>>

\* C9 as claimed: a store whose archive is not complete per frame is rejected:
\* no tick of play renders from it.
C9_IncompleteArchiveRejected ==
    (tables /\ ~ArchiveComplete(frame_library, display)) => rendered = <<>>

\* C10 as claimed: an interrupt never stops play inside a tick: when play has
\* stopped, the frame the mirror was last synchronized to has been rendered.
C10_InterruptStopsBetweenTicks ==
    (Stopped /\ pc \in {"read_current", "render"}) =>
        /\ rendered # <<>>
        /\ rendered[Len(rendered)].f_id = f_id

\* C11 as claimed: whenever playback is aborted by an interrupt, with --source
\* and with --play-db alike, the caller has emitted the formatting reset code
\* when the process ends.
C11_InterruptedPlaybackEmitsReset ==
    (Stopped /\ pc \in InLoop) => reset_emitted

\* C13: ingestion numbers the frames 0, 1, ... without a gap.  When ingest has
\* inserted its batch the archive's frame ids are exactly 0..N-1, where N is the
\* smaller of the number of frames the decoder yields and floor(rate * duration),
\* rate being the source's native rate, or the target fps when it reports none;
\* MAX(frame_id) is N-1 when N >= 1, and play's total is that value.
C13_FrameIdsSequentialFromZero ==
    /\ (mode = "source" /\ pc = "committing") =>
          LET rate2 == IF native_fps # 0 THEN native_fps ELSE 2 * fps_target
              budget == (rate2 * duration) \div 2
          IN  /\ max_frames = budget
              /\ frame_id <= budget
              /\ frame_id < budget => eof
              /\ frame_id = Len(encoded)
              /\ FrameIds(frame_library) = 0..(frame_id - 1)
              /\ frame_id >= 1 => MaxFrameId(frame_library) = frame_id - 1
              /\ frame_id = 0 => MaxFrameId(frame_library) = NoneVal
    /\ (mode = "source" /\ pc \in AfterCommit) =>
          /\ FrameIds(frame_library) = 0..(Len(encoded) - 1)
          /\ pc # "max" => total = Len(encoded) - 1

C13_Witness ==
    /\ mode = "source" /\ pc = "committing"
    /\ native_fps = 0 /\ fps_target = 1 /\ duration = 2
    /\ frame_id = 2 /\ ~eof
    /\ MaxFrameId(frame_library) = 1

\* C17: --play-db with a path that does not exist ends the process with a
\* failure status before a connection is opened, before a table is read or
\* written and before any tick.
C17_MissingStoreFailsFast ==
    /\ (mode = "play_db" /\ ~file0.exists) =>
          /\ pc = "check_path"
          /\ exit \in {"running", "not_found", "KeyboardInterrupt"}
          /\ ~connected /\ ~tables
          /\ file = file0
          /\ total = NoneVal /\ rendered = <<>>
    /\ exit = "not_found" =>
          /\ mode = "play_db" /\ ~file0.exists
          /\ ExitStatus(exit) # ExitStatus("ok")

C17_Witness ==
    /\ mode = "play_db" /\ exit = "not_found" /\ pc = "check_path"
    /\ ~connected /\ ~file.exists

\* C18: syncFrame(f) for a frame id with no row in the archive keeps the
\* mirror's line_no keys and sets every row's content to NULL, so readCurrent()
\* returns that many NULLs and nothing of the frame shown before.
C18_SyncAbsentFrameClears ==
    tables =>
        \A f \in (0..(2 * MaxFrames)) \ FrameIds(frame_library) :
            LET synced == SyncFrame(display, frame_library, f, plan)
            IN  /\ LineNos(synced) = LineNos(display)
                /\ Cardinality(synced) = Cardinality(display)
                /\ \A r \in synced : r.content = NULL
                /\ ReadCurrent(synced) = [i \in 1..Cardinality(display) |-> NULL]

C18_Witness ==
    /\ pc = "read_current" /\ f_id \notin FrameIds(frame_library)
    /\ rendered # <<>>
    /\ Cardinality(display) = MaxH
    /\ \A r \in display : r.content = NULL

\* C19: from the completion of _prepare_tables on, the committed file of an
\* ingesting session never holds part of the batch: until ingest's commit its
\* archive and mirror are empty (whatever the file held before, and also when
\* ingestion is interrupted or fails), and from the commit on it holds the whole
\* batch of every encoded frame together with the display_h empty mirror rows.
C19_CommittedArchiveAllOrNothing ==
    (mode = "source" /\ persist /\ pc # "prepare") =>
        /\ file.exists /\ file.tables
        /\ IF pc \in AfterCommit
           THEN /\ file.frame_library = batch
                /\ Len(batch) = Len(encoded) * display_h
                /\ file.display = InitialDisplayRows(display_h)
           ELSE /\ file.frame_library = <<>>
                /\ file.display = {}

C19_Witness ==
    /\ mode = "source" /\ persist /\ exit = "interrupted" /\ pc = "committing"
    /\ file0 # NoFile
    /\ Len(encoded) = MaxFrames
    /\ frame_library = batch
    /\ file.frame_library = <<>> /\ file.display = {}

\* The archive is not empty, its frame ids are 0..n-1 and every frame is complete.
WellFormedArchive ==
    /\ frame_library # <<>>
    /\ FrameIds(frame_library) = 0..(Cardinality(FrameIds(frame_library)) - 1)
    /\ ArchiveComplete(frame_library, display)

\* C14: play terminates.  Started on a non-empty well-formed archive with a
\* target fps > 0, the loop reaches its end right after rendering the frame
\* with the highest id, every frame rendered, unless an interrupt stops it;
\* and once at its end it renders nothing more.
C14_PlaybackTerminates ==
    /\ (pc = "sync" /\ f_id = 0 /\ exit = "running" /\ fps_target > 0 /\ WellFormedArchive)
          ~> (\/ Stopped
              \/ /\ pc = "end" /\ exit = "ok"
                 /\ Len(rendered) = Cardinality(FrameIds(frame_library))
                 /\ rendered[Len(rendered)].f_id = Cardinality(FrameIds(frame_library)) - 1)
    /\ [][(pc = "end") => (pc' = "end" /\ rendered' = rendered)]_vars

C14_Witness ==
    /\ mode = "play_db" /\ pc = "end" /\ exit = "ok" /\ fps_target > 0
    /\ total >= 1
    /\ rendered[Len(rendered)].f_id = total

\* C12: fidelity.  A process started with --play-db on the file an ingesting
\* process left renders, tick for tick, what that process rendered when it
\* played the session itself: every tick shows the same frame id and the same
\* lines (those the encoder returned), and when neither is interrupted the two
\* end the same way after the same number of ticks, whatever the contents of
\* the mirror rows in the file.
C12_ReplayMatchesDirectPlay ==
    (direct # NotPlayed /\ direct.pc \in AfterCommit) =>
        /\ \A i \in 1..Len(rendered) :
              /\ rendered[i].f_id = i - 1
              /\ rendered[i].lines = encoded[i]
              /\ i <= Len(direct.rendered) => rendered[i] = direct.rendered[i]
        /\ (exit \notin {"running", "KeyboardInterrupt"} /\ direct.exit # "interrupted") =>
              /\ exit = direct.exit
              /\ pc = direct.pc
              /\ rendered = direct.rendered

C12_Witness ==
    /\ direct.exit = "ok" /\ direct.pc = "end"
    /\ pc = "end" /\ exit = "ok"
    /\ Len(rendered) = MaxFrames
    /\ rendered = direct.rendered
    /\ \E r \in file.display : r.content = "stale"

\* Where a character stands in a ramp of distinct characters.
RampIndex(r, c) == CHOOSE i \in 1..Len(r) : r[i] = c

\* C15 as claimed: with the engine's configured (default) ramp every luminance
\* p in 0..255 maps to the ramp character at index p div 32, the mapping is
\* monotonic, 0 maps to the first ramp character and 255 to the last.
C15_GlyphMappingCoversRamp ==
    (pc = "encoded" /\ ramp = chars) =>
        /\ RampIndex(ramp, glyph) = (lum \div 32) + 1
        /\ \A q \in 0..lum : RampIndex(ramp, Glyph(ramp, q)) <= RampIndex(ramp, glyph)
        /\ lum = 0 => glyph = ramp[1]
        /\ lum = 255 => glyph = ramp[Len(ramp)]

\* C16 as claimed: an engine whose ramp length is not 8 is rejected at
\* construction, so no encode call runs with a ramp of another length.
C16_RampLengthValidated ==
    (pc \in {"encode", "encoded"}) => Len(ramp) = 8

====
